---- MODULE Spec2Model ----
(***************************************************************************)
(* PromisePool (src/lib/promise-pool.ts): a concurrency limiter with a     *)
(* FIFO queue, fire-and-forget add() and a drain() barrier.                *)
(*                                                                         *)
(* Tasks are numbered in the order of their add() calls; a task's number   *)
(* also names the promise promiseForWrappedTask that add() creates for it. *)
(* One step of the model is one synchronous run of JavaScript code: a call *)
(* of add(), a call of drain(), the settling of a task's own promise, or   *)
(* the continuation of wrappedTaskExecution after its await (the catch and *)
(* finally blocks).                                                        *)
(***************************************************************************)
EXTENDS Integers, Sequences, FiniteSets, TLC

\* ---- bounds of the model ----
\* add() calls made by the arbitrary callers of Spec
MaxAdds == 3
\* largest concurrency limit a pool is built with
MaxLimit == 2
\* number of drain() callers
MaxCallers == 2

\* the five tasks T1..T5 of the timed scenario
TimedTaskCount == 5

Tasks == 1..TimedTaskCount
Callers == 1..MaxCallers

\* null of resolveDrain / drainPromise
NoPromise == 0

\* largest |limit| handed to the constructor, counted in halves
MaxLimitHalves == 30

\* largest maxAttempts handed to translateChapterWithRetry
MaxAttempts == 3

\* setTimeout(res, 5000 * attempt)
BaseDelayMs == 5000

\* most files in the input folder of the series
MaxUnits == 2

\* most lines the response stream delivers to the invocation the governor awaits
MaxLines == 3

\* most lines the response streams deliver while two invocations are in flight
MaxConcurrentLines == 1

\* the runs of the translator, one after the other
Runs == {1, 2}

\* TRANSLATION_CONCURRENCY when the environment does not set it
DefaultConcurrency == 3

\* ---- JavaScript numbers, as far as the constructor and the size checks
\* tell them apart: multiples of 1/2, and NaN; comparisons with NaN are false ----
Half(h) == [kind |-> "number", halves |-> h]
Num(n) == Half(2 * n)
NaN == [kind |-> "NaN", halves |-> 0]
Undefined == [kind |-> "undefined", halves |-> 0]
NumLt(a, b) == a.kind = "number" /\ b.kind = "number" /\ a.halves < b.halves
NumLe(a, b) == a.kind = "number" /\ b.kind = "number" /\ a.halves <= b.halves
IsPositiveInteger(a) == a.kind = "number" /\ a.halves > 0 /\ a.halves % 2 = 0

\* values a caller may hand to new PromisePool(...)
LimitInputs == {NaN} \cup {Half(h) : h \in -MaxLimitHalves..MaxLimitHalves}

\* limits of the pools that are run: NaN and the multiples of 1/2 up to MaxLimit
PoolLimits == {NaN} \cup {Half(h) : h \in 0..(2 * MaxLimit)}

\* delays of the timed tasks, in ms
Durations == {20, 30, 40, 100, 120}

VARIABLES
    concurrencyLimit,     \* this.concurrencyLimit
    runningTasks,         \* this.runningTasks: set of wrapped-task promises
    taskQueue,            \* this.taskQueue: sequence of queued wrapped-task promises
    resolveDrain,         \* this.resolveDrain: the barrier it resolves, or NoPromise
    drainPromise,         \* this.drainPromise: the pending barrier, or NoPromise
    added,                \* number of add() calls made so far
    taskState,            \* per task: "notStarted", "executing", "settled", "done"
    outcome,              \* per task: "none", "ok", "fail" (rejected), "threw" (synchronously)
    invoked,              \* per task: how many times task() was called
    reported,             \* per task: console.error reports by the pool
    startOrder,           \* tasks in the order their bodies began
    promotionOrder,       \* tasks in the order they were shifted out of the queue
    drainCalls,           \* per caller: what its drain() call returned
    promisesCreated,      \* number of barrier promises created so far
    settledPromises,      \* barrier promises already resolved
    clock,                \* timed runs: current time in ms
    duration,             \* timed runs: delay of each task
    startedAt,            \* timed runs: time at which a task's body began
    taskCompletionOrder,  \* timed runs: tasks in the order their bodies ended
    requestedLimit,       \* the argument of new PromisePool(...)
    construction,         \* "pending", "created", or "threw"
    maxAttempts,          \* translateChapterWithRetry: its parameter
    attempt,              \* its loop variable
    retryPc,              \* "idle", "start", "call", "delay", "returned", "threw"
    calls,                \* the translateChapter calls so far and how each ended
    delays,               \* the setTimeout delays requested so far, in ms
    returned,             \* the value it returned
    raised,               \* the error it threw
    file,                 \* range filter: the file name, one character per element
    translateChapterMin,  \* the configured bounds, Undefined when absent
    translateChapterMax,
    rangeDecision,        \* "idle", "pending", "pass", "outOfRange", "cannotParse"
    inputFiles,           \* series: the listing of the input folder
    artifacts,            \* the files of the output folder
    dryRun,               \* DRY_RUN_TRANSLATION
    run,                  \* 0 outside a run, else the run in progress
    scanIndex,            \* processSeries: the position of its loop in inputFiles
    decision,             \* per run and file: what the loop decided
    existedAtCheck,       \* per run and file: was its artifact there when scanned
    submitted,            \* <<run, file index>> handed to pool.add
    requests,             \* <<run, file index>> for which translation was requested
    exhausted,            \* <<run, file index>> whose retries all failed
    skipTranslation,      \* the series' skipTranslation flag
    selected,             \* getSeriesToProcess: "pending", "yes" or "no" in this run
    emptyInput,           \* <<run, file index>> whose input was blank
    blankOutput,          \* <<run, file index>> whose translation was blank
    unitOfTask,           \* the file index of each pool task of this run
    taskPc,               \* createTranslationTask: where each task's body stands
    apiKey,               \* translateChapter: is APIKEY_DEEPSEEK set
    invPc,                \* per invocation: "idle", "posting", "streaming", "returned", "threw"
    lines,                \* per invocation: the lines its loop has taken from the stream
    received,             \* the lines taken so far, all invocations together
    finalOutput,          \* per invocation: the local finalOutput
    timer,                \* per invocation: is its abort timer pending
    tempFileStream,       \* per invocation: "null", "open", "broken" (failed, the
                          \* error event not yet delivered) or "ended"
    sideFile,             \* per invocation: the content of its temporary file
    result,               \* per invocation: what it returned
    thrown,               \* per invocation: the message of the error it threw
    cause,                \* per invocation: what made it throw
    trimmed,              \* per invocation: what the caller extracted from its result
    savedText             \* per invocation: what the caller wrote to the output file

poolVars == <<concurrencyLimit, runningTasks, taskQueue, resolveDrain, drainPromise>>
taskVars == <<added, taskState, outcome, invoked, reported, startOrder, promotionOrder>>
drainVars == <<drainCalls, promisesCreated, settledPromises>>
timeVars == <<clock, duration, startedAt, taskCompletionOrder>>
ctorVars == <<requestedLimit, construction>>
retryVars == <<maxAttempts, attempt, retryPc, calls, delays, returned, raised>>
rangeVars == <<file, translateChapterMin, translateChapterMax, rangeDecision>>
seriesVars ==
    <<inputFiles, artifacts, dryRun, run, scanIndex, decision, existedAtCheck,
      submitted, requests, exhausted, skipTranslation, selected, emptyInput,
      blankOutput, unitOfTask, taskPc>>
streamVars ==
    <<apiKey, invPc, lines, received, finalOutput, timer, tempFileStream, sideFile,
      result, thrown, cause, trimmed, savedText>>
extVars == <<ctorVars, retryVars, rangeVars, seriesVars, streamVars>>
vars == <<poolVars, taskVars, drainVars, timeVars, extVars>>

\* ---- helpers modelling single expressions of the pool ----

\* runningTasks.size < concurrencyLimit
HasFreeSlot(running) == NumLt(Num(Cardinality(running)), concurrencyLimit)

\* runningTasks.size === 0 && taskQueue.length === 0
PoolEmpty(running, queue) == running = {} /\ queue = <<>>

\* startTask(promise): runningTasks.add(promise)
startTask(running, p) == running \cup {p}

\* variant: pop() instead of shift(), taking the newest queued task
QueuePop(queue) ==
    [task |-> queue[Len(queue)], rest |-> SubSeq(queue, 1, Len(queue) - 1)]

\* taskQueue.shift(): the element taken and the queue left
QueueShift(queue) == [task |-> Head(queue), rest |-> Tail(queue)]

\* the while loop of processQueue
RECURSIVE PromoteLoop(_, _, _)
PromoteLoop(running, queue, shifted) ==
    IF HasFreeSlot(running) /\ Len(queue) > 0
    THEN LET s == QueueShift(queue)
         IN  PromoteLoop(startTask(running, s.task), s.rest, Append(shifted, s.task))
    ELSE [running |-> running, queue |-> queue, shifted |-> shifted]

\* variant: the drain check without the runningTasks.size === 0 conjunct
ShouldResolveDrainQueueOnly(running, queue) ==
    queue = <<>> /\ resolveDrain # NoPromise

\* variant: a processQueue that never resolves the barrier
ShouldResolveDrainNever(running, queue) == FALSE

\* the drain check at the end of processQueue
ShouldResolveDrain(running, queue) ==
    PoolEmpty(running, queue) /\ resolveDrain # NoPromise

\* processQueue() on the running set `running` and the queue `queue`: the sets
\* it leaves, the tasks it shifted, and whether it calls resolveDrain()
processQueueResult(running, queue) ==
    LET r == PromoteLoop(running, queue, <<>>)
    IN  [running |-> r.running, queue |-> r.queue, shifted |-> r.shifted,
         resolves |-> ShouldResolveDrain(r.running, r.queue)]

\* variant: the barrier kept after it was resolved
drainPromiseKept(p) == p

\* line 75: this.drainPromise = null
drainPromiseAfterResolve(p) == NoPromise

\* lines 73-75: resolveDrain(); resolveDrain = null; drainPromise = null
ResolveDrainIf(resolves) ==
    IF resolves
    THEN /\ settledPromises' = settledPromises \cup {resolveDrain}
         /\ resolveDrain' = NoPromise
         /\ drainPromise' = drainPromiseAfterResolve(drainPromise)
    ELSE UNCHANGED <<settledPromises, resolveDrain, drainPromise>>

\* variant: a queue holding the task itself, so that promotion runs it again
CallQueuedRerun(inv, t) == [inv EXCEPT ![t] = @ + 1]

\* taskToStart() in processQueue: the queued function is
\* () => promiseForWrappedTask, which hands back the promise made by add()
\* and calls nothing; inv counts the calls of each task()
CallQueued(inv, t) == inv

\* the calls of task() after the queued functions of `shifted` were called
RECURSIVE AfterPromotions(_, _)
AfterPromotions(inv, shifted) ==
    IF shifted = <<>>
    THEN inv
    ELSE AfterPromotions(CallQueued(inv, Head(shifted)), Tail(shifted))

\* variant: a catch block that reports whatever the outcome
CatchReportsAlways(o) == 1

\* the catch block of wrappedTaskExecution: one console.error when task()
\* threw or its promise rejected, none when it fulfilled
CatchReports(o) == IF o \in {"fail", "threw"} THEN 1 ELSE 0

\* processQueue(), entered with the running set `running`
processQueue(running) ==
    LET r == processQueueResult(running, taskQueue)
    IN  /\ runningTasks' = r.running
        /\ taskQueue' = r.queue
        /\ promotionOrder' = promotionOrder \o r.shifted
        /\ invoked' = AfterPromotions(invoked, r.shifted)
        /\ ResolveDrainIf(r.resolves)

\* variant: add() tracking every promise as running
TrackAlwaysStarts(running, queue, t) == [running |-> startTask(running, t), queue |-> queue]

\* lines 47-53 of add(): track the promise as running, or push it on the queue
Track(running, queue, t) ==
    IF HasFreeSlot(running)
    THEN [running |-> startTask(running, t), queue |-> queue]
    ELSE [running |-> running, queue |-> Append(queue, t)]

\* ---- operations ----

\* add(task): wrappedTaskExecution() is called at once, which calls task();
\* then the promise is tracked as running or pushed on the queue
add(t) ==
    /\ t = added + 1
    /\ t \in Tasks
    /\ added' = t
    /\ taskState' = [taskState EXCEPT ![t] = "executing"]
    /\ invoked' = [invoked EXCEPT ![t] = @ + 1]
    /\ startOrder' = Append(startOrder, t)
    /\ startedAt' = [startedAt EXCEPT ![t] = clock]
    /\ runningTasks' = Track(runningTasks, taskQueue, t).running
    /\ taskQueue' = Track(runningTasks, taskQueue, t).queue
    /\ UNCHANGED <<concurrencyLimit, resolveDrain, drainPromise, outcome, reported,
                   promotionOrder, drainVars, clock, duration, taskCompletionOrder>>

\* add(task) with a task() that throws before returning a promise: the catch
\* block reports it and the finally block runs inside add(), while
\* promiseForWrappedTask is not yet initialised. Reading it either throws a
\* ReferenceError (a `const` kept by the compiler: tdz) so that processQueue() is
\* skipped, or yields undefined (a `var` emitted by the compiler), and then
\* delete(undefined) does nothing and processQueue() runs. In both cases lines
\* 47-53 then track the already settled promise.
addThrowing(t, tdz) ==
    /\ t = added + 1
    /\ t \in Tasks
    /\ added' = t
    /\ taskState' = [taskState EXCEPT ![t] = "done"]
    /\ outcome' = [outcome EXCEPT ![t] = "threw"]
    /\ reported' = [reported EXCEPT ![t] = @ + CatchReports("threw")]
    /\ startOrder' = Append(startOrder, t)
    /\ startedAt' = [startedAt EXCEPT ![t] = clock]
    /\ LET r == IF tdz
                THEN [running |-> runningTasks, queue |-> taskQueue, shifted |-> <<>>,
                      resolves |-> FALSE]
                ELSE processQueueResult(runningTasks, taskQueue)
       IN  /\ runningTasks' = Track(r.running, r.queue, t).running
           /\ taskQueue' = Track(r.running, r.queue, t).queue
           /\ promotionOrder' = promotionOrder \o r.shifted
           /\ invoked' = AfterPromotions([invoked EXCEPT ![t] = @ + 1], r.shifted)
           /\ ResolveDrainIf(r.resolves)
    /\ UNCHANGED <<concurrencyLimit, drainCalls, promisesCreated, clock, duration,
                   taskCompletionOrder>>

\* the promise returned by task() settles: fulfilled ("ok") or rejected ("fail")
taskSettles(t, o) ==
    /\ taskState[t] = "executing"
    /\ taskState' = [taskState EXCEPT ![t] = "settled"]
    /\ outcome' = [outcome EXCEPT ![t] = o]
    /\ UNCHANGED <<poolVars, added, invoked, reported, startOrder, promotionOrder,
                   drainVars, duration, startedAt>>

\* wrappedTaskExecution resumes after `await task()`: catch (report a failure),
\* then finally (delete the promise from runningTasks, processQueue())
wrappedTaskExecution(t) ==
    /\ taskState[t] = "settled"
    /\ taskState' = [taskState EXCEPT ![t] = "done"]
    /\ reported' = [reported EXCEPT ![t] = @ + CatchReports(outcome[t])]
    /\ processQueue(runningTasks \ {t})
    /\ UNCHANGED <<concurrencyLimit, added, outcome, startOrder,
                   drainCalls, promisesCreated, timeVars>>

\* variant: drain() without its early return
DrainNeverEarly == FALSE

\* variant: drain() creating a new promise on every call
AlwaysNewBarrier == TRUE

\* drain(), called by caller c
DrainNothingToDo == PoolEmpty(runningTasks, taskQueue)

NeedsNewBarrier == drainPromise = NoPromise

drain(c) ==
    /\ drainCalls[c].kind = "none"
    /\ IF DrainNothingToDo
       THEN /\ drainCalls' = [drainCalls EXCEPT ![c] =
                                 [kind |-> "immediate", id |-> NoPromise, addedAtCall |-> added]]
            /\ UNCHANGED <<drainPromise, resolveDrain, promisesCreated>>
       ELSE IF NeedsNewBarrier
            THEN /\ promisesCreated' = promisesCreated + 1
                 /\ drainPromise' = promisesCreated + 1
                 /\ resolveDrain' = promisesCreated + 1
                 /\ drainCalls' = [drainCalls EXCEPT ![c] =
                                      [kind |-> "barrier", id |-> promisesCreated + 1,
                                       addedAtCall |-> added]]
            ELSE /\ drainCalls' = [drainCalls EXCEPT ![c] =
                                      [kind |-> "barrier", id |-> drainPromise,
                                       addedAtCall |-> added]]
                 /\ UNCHANGED <<drainPromise, resolveDrain, promisesCreated>>
    /\ UNCHANGED <<concurrencyLimit, runningTasks, taskQueue, taskVars, settledPromises,
                   timeVars>>

\* constructor, line 11: concurrencyLimit <= 0
constructorThrows(limit) == NumLe(limit, Num(0))

\* new PromisePool(requestedLimit)
construct ==
    /\ construction = "pending"
    /\ UNCHANGED <<retryVars, rangeVars, seriesVars, streamVars>>
    /\ IF constructorThrows(requestedLimit)
       THEN /\ construction' = "threw"
            /\ UNCHANGED <<concurrencyLimit, runningTasks, taskQueue>>
       ELSE /\ construction' = "created"
            /\ concurrencyLimit' = requestedLimit
            /\ runningTasks' = {}
            /\ taskQueue' = <<>>
    /\ UNCHANGED <<requestedLimit, resolveDrain, drainPromise, taskVars, drainVars, timeVars>>

\* ---- translateChapterWithRetry ----

\* what translateChapter can resolve with, and the messages it can reject with
Translations == {"chapter text", "   "}
Causes == {"HTTP 429", "HTTP 500", "socket hang up"}
NoValue == "no value"
NoError == [message |-> "no error", cause |-> "undefined"]

\* new Error('❌ All retries failed.'): a message and no cause
AllRetriesFailed == [message |-> "All retries failed.", cause |-> "undefined"]

\* variant: the same delay after every attempt
BackoffDelayFlat(a) == BaseDelayMs

\* 5000 * attempt
BackoffDelay(a) == BaseDelayMs * a

\* variant: a loop that allows one attempt more
LoopContinuesOnceMore(a) == a <= maxAttempts + 1

\* attempt <= maxAttempts
LoopContinues(a) == a <= maxAttempts

\* the loop test with loop variable a: the next call, or the throw after the loop
loopHead(a) ==
    /\ attempt' = a
    /\ IF LoopContinues(a)
       THEN /\ retryPc' = "call"
            /\ UNCHANGED raised
       ELSE /\ retryPc' = "threw"
            /\ raised' = AllRetriesFailed

\* translateChapterWithRetry is entered: attempt = 1
retryStarts ==
    /\ retryPc = "start"
    /\ loopHead(1)
    /\ UNCHANGED <<maxAttempts, calls, delays, returned>>

\* variant: a governor that accepts only a result that is not empty
ReturnsOnlyNonEmpty(v) == Len(v) > 0

\* lines 64-66: whatever translateChapter resolves with is returned
ReturnsResult(v) == TRUE

\* await translateChapter(...) resolves with v: return result
attemptSucceeds(v) ==
    /\ retryPc = "call"
    /\ calls' = Append(calls, [ok |-> TRUE, value |-> v, cause |-> "undefined"])
    /\ IF ReturnsResult(v)
       THEN /\ returned' = v
            /\ retryPc' = "returned"
            /\ UNCHANGED delays
       ELSE /\ delays' = Append(delays, BackoffDelay(attempt))
            /\ retryPc' = "delay"
            /\ UNCHANGED returned
    /\ UNCHANGED <<maxAttempts, attempt, raised>>

\* await translateChapter(...) rejects with an error whose message is e: the
\* catch block warns and requests the delay
attemptFails(e) ==
    /\ retryPc = "call"
    /\ calls' = Append(calls, [ok |-> FALSE, value |-> NoValue, cause |-> e])
    /\ delays' = Append(delays, BackoffDelay(attempt))
    /\ retryPc' = "delay"
    /\ UNCHANGED <<maxAttempts, attempt, returned, raised>>

\* the timer fires: attempt++ and the loop test
delayElapses ==
    /\ retryPc = "delay"
    /\ loopHead(attempt + 1)
    /\ UNCHANGED <<maxAttempts, calls, delays, returned>>

\* translateChapterWithRetry is not running
RetryIdle ==
    /\ maxAttempts = 0
    /\ attempt = 0
    /\ retryPc = "idle"
    /\ calls = <<>>
    /\ delays = <<>>
    /\ returned = NoValue
    /\ raised = NoError

\* the variables other than those of translateChapterWithRetry
nonRetryVars ==
    <<poolVars, taskVars, drainVars, timeVars, ctorVars, rangeVars, seriesVars, streamVars>>

\* ---- the chapter range filter of processSeries ----

DigitChars == <<"0", "1", "2", "3", "4", "5", "6", "7", "8", "9">>
IsDigit(c) == \E i \in 1..Len(DigitChars) : DigitChars[i] = c
DigitValue(c) == (CHOOSE i \in 1..Len(DigitChars) : DigitChars[i] = c) - 1

\* \s, as far as the file names here use it
IsWhitespace(c) == c \in {" ", "\t", "\n"}

\* file.match(/^(\d{4})\s*-/): four digits at the start, any whitespace, a hyphen
RegexMatches(f) ==
    /\ Len(f) >= 5
    /\ \A i \in 1..4 : IsDigit(f[i])
    /\ \E j \in 5..Len(f) :
          /\ f[j] = "-"
          /\ \A i \in 5..(j - 1) : IsWhitespace(f[i])

\* match[1]: the four digits captured
Captured(f) == SubSeq(f, 1, 4)

\* parseInt(digits, 10) of a string of decimal digits
RECURSIVE DecimalValue(_)
DecimalValue(digits) ==
    IF digits = <<>>
    THEN 0
    ELSE 10 * DecimalValue(SubSeq(digits, 1, Len(digits) - 1))
         + DigitValue(digits[Len(digits)])

\* parseInt(text, 10): NaN unless text starts with a digit (no sign or leading
\* blank occurs in a capture of \d{4})
parseInt(text) ==
    IF text # <<>> /\ \A i \in 1..Len(text) : IsDigit(text[i])
    THEN Num(DecimalValue(text))
    ELSE NaN

isNaN(n) == n.kind = "NaN"

\* variant: a lower bound that excludes the bound itself
BelowMinExclusive(n, min) == min # Undefined /\ NumLe(n, min)

\* translateChapterMin !== undefined && chapterNumberFromFile < translateChapterMin
BelowMin(n, min) == min # Undefined /\ NumLt(n, min)

\* translateChapterMax !== undefined && chapterNumberFromFile > translateChapterMax
AboveMax(n, max) == max # Undefined /\ NumLt(max, n)

\* lines 415-430: what the range filter does with file f under bounds min, max
rangeFilter(f, min, max) ==
    IF min # Undefined \/ max # Undefined
    THEN IF RegexMatches(f) /\ Captured(f) # <<>>
         THEN LET chapterNumberFromFile == parseInt(Captured(f))
              IN  IF ~isNaN(chapterNumberFromFile)
                  THEN IF BelowMin(chapterNumberFromFile, min)
                          \/ AboveMax(chapterNumberFromFile, max)
                       THEN "outOfRange"
                       ELSE "pass"
                  ELSE "pass"
         ELSE "cannotParse"
    ELSE "pass"

\* the filter is applied to the file at hand
applyRangeFilter ==
    /\ rangeDecision = "pending"
    /\ rangeDecision' = rangeFilter(file, translateChapterMin, translateChapterMax)
    /\ UNCHANGED <<file, translateChapterMin, translateChapterMax>>

\* file names a series folder may hold
File0005 == <<"0", "0", "0", "5", " ", "-", " ", "a", ".", "t", "x", "t">>
File0010 == <<"0", "0", "1", "0", " ", "-", " ", "b", ".", "t", "x", "t">>
File0030 == <<"0", "0", "3", "0", "-", "c", ".", "t", "x", "t">>
File0050 == <<"0", "0", "5", "0", " ", "\t", "-", "d", ".", "t", "x", "t">>
File0051 == <<"0", "0", "5", "1", " ", "-", " ", "e", ".", "t", "x", "t">>
FileFiveDigits == <<"0", "0", "0", "2", "0", " ", "-", " ", "f", ".", "t", "x", "t">>
FileOneDigit == <<"7", " ", "-", " ", "g", ".", "t", "x", "t">>
FileNoHyphen == <<"0", "0", "2", "0", " ", "h", ".", "t", "x", "t">>
FileNoNumber == <<"p", "r", "o", "l", "o", "g", "u", "e", ".", "t", "x", "t">>
FileNames ==
    {File0005, File0010, File0030, File0050, File0051,
     FileFiveDigits, FileOneDigit, FileNoHyphen, FileNoNumber}

\* values of translateChapterMin and translateChapterMax
RangeBounds == {Undefined} \cup {Num(n) : n \in {0, 10, 50}}

\* the schema's refinement: min <= max when both are given
BoundsAccepted(min, max) == (min # Undefined /\ max # Undefined) => NumLe(min, max)

\* no file is being filtered
RangeIdle ==
    /\ file = <<>>
    /\ translateChapterMin = Undefined
    /\ translateChapterMax = Undefined
    /\ rangeDecision = "idle"

\* the variables other than those of the range filter
nonRangeVars ==
    <<poolVars, taskVars, drainVars, timeVars, ctorVars, retryVars, seriesVars, streamVars>>

\* ---- processSeries and createTranslationTask ----

\* String.prototype.trim, on a text held as a sequence of characters
RECURSIVE trimStart(_)
trimStart(text) ==
    IF text # <<>> /\ IsWhitespace(Head(text)) THEN trimStart(Tail(text)) ELSE text

RECURSIVE trimEnd(_)
trimEnd(text) ==
    IF text # <<>> /\ IsWhitespace(text[Len(text)])
    THEN trimEnd(SubSeq(text, 1, Len(text) - 1))
    ELSE text

trim(text) == trimStart(trimEnd(text))

\* variant: a test for the empty string that does not trim first
IsFalsyUntrimmed(text) == text = <<>>

\* !chineseText.trim()
IsFalsyAfterTrim(text) == trim(text) = <<>>

\* variant: removing only the trailing whitespace
extractTranslationTrimEnd(content) == trimEnd(content)

\* extractTranslation(content): content.trim()
extractTranslation(content) == trim(content)

\* variant: a dry run that is not honoured
DryRunIgnored(flag) == FALSE

\* if (DRY_RUN_TRANSLATION) in createTranslationTask
DryRunReturns(flag) == flag

\* variant: a series selected whatever its flag
SeriesSelectedAlways(skip) == TRUE

\* getSeriesToProcess: a series with skipTranslation set is not pushed
SeriesSelected(skip) == ~skip

\* what readFileContent can give, and what translateChapterWithRetry can give
InputTexts == {<<>>, <<" ", "\n">>, <<"x">>}
OutputTexts == {<<>>, <<"\n", " ">>, <<" ", "a", "\n">>, <<"a">>}

TxtSuffix == <<".", "t", "x", "t">>
TranslatedMd == <<".", "t", "r", "a", "n", "s", "l", "a", "t", "e", "d", ".", "m", "d">>

\* where pattern first occurs in text, 0 when it does not
FirstIndexOf(text, pattern) ==
    LET at == {i \in 1..(Len(text) - Len(pattern) + 1) :
                  SubSeq(text, i, i + Len(pattern) - 1) = pattern}
    IN  IF at = {} THEN 0 ELSE CHOOSE i \in at : \A j \in at : i <= j

\* file.replace('.txt', '.translated.md'): the first occurrence only
OutputName(f) ==
    LET i == FirstIndexOf(f, TxtSuffix)
    IN  IF i = 0
        THEN f
        ELSE SubSeq(f, 1, i - 1) \o TranslatedMd \o SubSeq(f, i + Len(TxtSuffix), Len(f))

\* the folder listings: the first n of these files
FolderFiles == <<File0010, File0005, FileNoNumber, File0050, File0051>>

\* two files of one folder whose names hold ".txt" before the extension:
\* "0060-f.txt.translated.md.txt" and "0060-f.translated.md.txt.txt"
File0060 == <<"0", "0", "6", "0", "-", "f">>
FileTxtBeforeMd == File0060 \o TxtSuffix \o TranslatedMd \o TxtSuffix
FileMdBeforeTxt == File0060 \o TranslatedMd \o TxtSuffix \o TxtSuffix
NestedSuffixFolder == <<FileTxtBeforeMd, FileMdBeforeTxt>>
Units == 1..MaxUnits

\* variant: a check of the input path, which is never among the artifacts
existsCheckOfInput(f) == f \in artifacts

\* variant: no check at all
existsCheckNever(f) == FALSE

\* await fs.access(outputPath) succeeds
existsCheck(f) == OutputName(f) \in artifacts

\* variant: an empty placeholder saved when the retries are exhausted
PlaceholderAfterExhaustion(arts, f) == arts \cup {OutputName(f)}

\* the catch block of createTranslationTask: it logs, and saves nothing
ArtifactsAfterExhaustion(arts, f) == arts

\* await writeToFile(outputPath, trimmed)
writeToFile(arts, f) == arts \cup {OutputName(f)}

\* no series is being processed
SeriesIdle ==
    /\ inputFiles = <<>>
    /\ artifacts = {}
    /\ dryRun = FALSE
    /\ run = 0
    /\ scanIndex = 0
    /\ decision = [r \in Runs |-> [u \in Units |-> "none"]]
    /\ existedAtCheck = [r \in Runs |-> [u \in Units |-> FALSE]]
    /\ submitted = {}
    /\ requests = {}
    /\ exhausted = {}
    /\ skipTranslation = FALSE
    /\ selected = "pending"
    /\ emptyInput = {}
    /\ blankOutput = {}
    /\ unitOfTask = [t \in Tasks |-> 0]
    /\ taskPc = [t \in Tasks |-> "none"]

\* getSeriesToProcess, at the start of main: the series is pushed on
\* seriesToProcess unless its configuration says skipTranslation; with nothing
\* to process main returns
getSeriesToProcess ==
    /\ run \in Runs
    /\ selected = "pending"
    /\ selected' = IF SeriesSelected(skipTranslation) THEN "yes" ELSE "no"
    /\ UNCHANGED <<poolVars, taskVars, drainVars, timeVars, ctorVars, retryVars, rangeVars,
                   streamVars, inputFiles, artifacts, dryRun, run, scanIndex, decision, existedAtCheck,
                   submitted, requests, exhausted, skipTranslation, emptyInput,
                   blankOutput, unitOfTask, taskPc>>

\* one turn of the loop of processSeries, on inputFiles[scanIndex]: the range
\* filter, the artifact check, and pool.add for a file that passes both
scanFile ==
    /\ run \in Runs
    /\ selected = "yes"
    /\ scanIndex <= Len(inputFiles)
    /\ LET u == scanIndex
           f == inputFiles[u]
           inRange == rangeFilter(f, translateChapterMin, translateChapterMax)
           t == added + 1
       IN  /\ scanIndex' = u + 1
           /\ existedAtCheck' =
                  [existedAtCheck EXCEPT ![run][u] = OutputName(f) \in artifacts]
           /\ IF inRange # "pass"
              THEN /\ decision' = [decision EXCEPT ![run][u] = inRange]
                   /\ UNCHANGED <<poolVars, taskVars, submitted, unitOfTask, taskPc>>
              ELSE IF existsCheck(f)
                   THEN /\ decision' = [decision EXCEPT ![run][u] = "exists"]
                        /\ UNCHANGED <<poolVars, taskVars, submitted, unitOfTask, taskPc>>
                   ELSE /\ decision' = [decision EXCEPT ![run][u] = "include"]
                        /\ submitted' = submitted \cup {<<run, u>>}
                        /\ unitOfTask' = [unitOfTask EXCEPT ![t] = u]
                        /\ taskPc' = [taskPc EXCEPT ![t] = "reading"]
                        /\ add(t)
    /\ UNCHANGED <<drainVars, timeVars, ctorVars, retryVars, rangeVars, streamVars,
                   inputFiles, artifacts, dryRun, run, requests, exhausted, skipTranslation,
                   selected, emptyInput, blankOutput>>

\* the body of task t resolves or rejects its promise
bodyEnds(t, o) ==
    /\ taskSettles(t, o)
    /\ taskPc' = [taskPc EXCEPT ![t] = "finished"]

\* the body of task t goes on to its next await
bodyGoesOn(t, pc) ==
    /\ taskPc' = [taskPc EXCEPT ![t] = pc]
    /\ UNCHANGED <<poolVars, taskVars, drainVars>>

\* what a step of a task body leaves alone besides the pool and its own fields
taskFrame ==
    <<timeVars, ctorVars, retryVars, rangeVars, streamVars, inputFiles, dryRun, run, scanIndex,
      decision, existedAtCheck, submitted, skipTranslation, selected, unitOfTask>>

\* await readFileContent(inputPath) rejects: the task's promise rejects
readFails(t) ==
    /\ taskPc[t] = "reading"
    /\ bodyEnds(t, "fail")
    /\ UNCHANGED <<taskFrame, artifacts, requests, exhausted, emptyInput, blankOutput>>

\* await readFileContent(inputPath) gives text: blank text returns, a dry run
\* returns, and otherwise translateChapterWithRetry is called
readDone(t, text) ==
    /\ taskPc[t] = "reading"
    /\ emptyInput' = IF \A i \in 1..Len(text) : IsWhitespace(text[i])
                      THEN emptyInput \cup {<<run, unitOfTask[t]>>}
                      ELSE emptyInput
    /\ IF IsFalsyAfterTrim(text) \/ DryRunReturns(dryRun)
       THEN bodyEnds(t, "ok") /\ UNCHANGED requests
       ELSE /\ bodyGoesOn(t, "translating")
            /\ requests' = requests \cup {<<run, unitOfTask[t]>>}
    /\ UNCHANGED <<taskFrame, artifacts, exhausted, blankOutput>>

\* await translateChapterWithRetry(...) throws: the catch block logs it
translateThrows(t) ==
    /\ taskPc[t] = "translating"
    /\ bodyEnds(t, "ok")
    /\ exhausted' = exhausted \cup {<<run, unitOfTask[t]>>}
    /\ artifacts' = ArtifactsAfterExhaustion(artifacts, inputFiles[unitOfTask[t]])
    /\ UNCHANGED <<taskFrame, requests, emptyInput, blankOutput>>

\* await translateChapterWithRetry(...) gives text: a text that is empty after
\* extractTranslation returns, any other goes on to be saved
translateDone(t, text) ==
    /\ taskPc[t] = "translating"
    /\ blankOutput' = IF \A i \in 1..Len(text) : IsWhitespace(text[i])
                       THEN blankOutput \cup {<<run, unitOfTask[t]>>}
                       ELSE blankOutput
    /\ IF extractTranslation(text) = <<>>
       THEN bodyEnds(t, "ok")
       ELSE bodyGoesOn(t, "writing")
    /\ UNCHANGED <<taskFrame, artifacts, requests, exhausted, emptyInput>>

\* await writeToFile(outputPath, trimmed) ends: the file is saved, or the write
\* is refused and the catch block logs it
writeDone(t, saved) ==
    /\ taskPc[t] = "writing"
    /\ bodyEnds(t, "ok")
    /\ artifacts' = IF saved
                     THEN writeToFile(artifacts, inputFiles[unitOfTask[t]])
                     ELSE artifacts
    /\ UNCHANGED <<taskFrame, requests, exhausted, emptyInput, blankOutput>>

\* main: await pool.drain() once every series is scanned and a file was added
mainDrains ==
    /\ run \in Runs
    /\ selected = "yes"
    /\ scanIndex > Len(inputFiles)
    /\ added > 0
    /\ drain(1)
    /\ UNCHANGED extVars

\* the process has nothing left to do: the scan is over, drain() was called if
\* a file was added, and every wrapper has finished
RunOver ==
    \/ selected = "no"
    \/ /\ selected = "yes"
       /\ scanIndex > Len(inputFiles)
       /\ added > 0 => drainCalls[1].kind # "none"
       /\ \A t \in Tasks : t <= added => taskState[t] = "done"

\* the translator is started again: a new process with a new pool
nextRun ==
    /\ run = 1
    /\ RunOver
    /\ run' = 2
    /\ scanIndex' = 1
    /\ selected' = "pending"
    /\ runningTasks' = {}
    /\ taskQueue' = <<>>
    /\ resolveDrain' = NoPromise
    /\ drainPromise' = NoPromise
    /\ added' = 0
    /\ taskState' = [t \in Tasks |-> "notStarted"]
    /\ outcome' = [t \in Tasks |-> "none"]
    /\ invoked' = [t \in Tasks |-> 0]
    /\ reported' = [t \in Tasks |-> 0]
    /\ startOrder' = <<>>
    /\ promotionOrder' = <<>>
    /\ drainCalls' = [c \in Callers |-> [kind |-> "none", id |-> NoPromise, addedAtCall |-> 0]]
    /\ promisesCreated' = 0
    /\ settledPromises' = {}
    /\ unitOfTask' = [t \in Tasks |-> 0]
    /\ taskPc' = [t \in Tasks |-> "none"]
    /\ UNCHANGED <<concurrencyLimit, timeVars, ctorVars, retryVars, rangeVars, streamVars,
                   inputFiles, artifacts, dryRun, decision, existedAtCheck, submitted, requests,
                   exhausted, skipTranslation, emptyInput, blankOutput>>

\* ---- translateChapter ----

\* invocation 1 is the one translateChapterWithRetry awaits; invocation 2 is an
\* invocation made by another task meanwhile
Invocations == {1, 2}
Governed == 1

\* data.choices?.[0]?.delta?.content || '' of the lines that parse
Tokens == {<<>>, <<" ">>, <<"a">>}

\* the lines readline can deliver: blank, data: [DONE], data: <JSON> with its
\* token, data: <text that is not JSON>, and a line without the data: prefix
StreamLines ==
    {[kind |-> k, token |-> <<>>] : k \in {"blank", "done", "malformed", "unexpected"}}
    \cup {[kind |-> "data", token |-> k] : k \in Tokens}

NoResult == [has |-> FALSE, text |-> <<>>]
TimedOutMessage == "Translation timed out or aborted."
ApiKeyMessage == "APIKEY_DEEPSEEK environment variable is not set."

\* variant: only the timer's cancellation is recognised
IsCancelOnlyTimer(c) == c = "timeout"

\* axios.isCancel(err) || err.name === 'AbortError'
IsCancel(c) == c \in {"timeout", "abort"}

\* the message of the error the catch block throws for an error of kind c
ThrownMessage(c) ==
    IF IsCancel(c)
    THEN TimedOutMessage
    ELSE IF c = "axios" THEN "API request failed" ELSE "socket hang up"

\* variant: a loop that reads on past the end marker
breaksLoopNever(line) == FALSE

\* variant: the loop left at a line that does not parse
breaksLoopOnBadLine(line) == line.kind \in {"done", "malformed"}

\* line.trim() === 'data: [DONE]': break
breaksLoop(line) == line.kind = "done"

\* the token the loop body takes from a line: that of a data line that parses,
\* nothing from any other line
tokenOf(line) == IF line.kind = "data" THEN line.token ELSE <<>>

\* variant: the whole accumulated text written at every token
sideWriteAll(content, token, output) == content \o output

\* tempFileStream.write(token)
sideWrite(content, token, output) == content \o token

\* variant: an accumulator that outlives the call
OutputOfLastCall(previous) == previous

\* let finalOutput = '': a new accumulator in every call
InitialOutput(previous) == <<>>

\* variant: a caller that saves whatever it extracted
SkipsNothing(text) == FALSE

\* if (!trimmed) return: no file for an empty text
SkipsFileCreation(text) == text = <<>>

\* the invocation ends: finally clears the timer and ends the side stream if
\* the variable still holds one; the governor, if it awaits this invocation,
\* returns the value or goes to its catch block
invocationEnds(i, returns, text, message) ==
    /\ invPc' = [invPc EXCEPT ![i] = IF returns THEN "returned" ELSE "threw"]
    /\ result' = [result EXCEPT ![i] = IF returns THEN [has |-> TRUE, text |-> text] ELSE @]
    /\ thrown' = [thrown EXCEPT ![i] = IF returns THEN @ ELSE message]
    /\ timer' = [timer EXCEPT ![i] = FALSE]
    /\ tempFileStream' = [tempFileStream EXCEPT ![i] = IF @ = "null" THEN "null" ELSE "ended"]
    /\ IF i = Governed
       THEN IF returns THEN attemptSucceeds(text) ELSE attemptFails(message)
       ELSE UNCHANGED retryVars

\* translateChapter is called; named: identifier and originalFilename are
\* given; created: createWriteStream returns a stream rather than throwing
callTranslateChapter(i, named, created) ==
    /\ \/ invPc[i] = "idle" /\ (i = Governed => retryPc = "call")
       \/ i = Governed /\ invPc[i] = "threw" /\ retryPc = "call"
    /\ lines' = [lines EXCEPT ![i] = <<>>]
    /\ finalOutput' = [finalOutput EXCEPT ![i] = InitialOutput(@)]
    /\ sideFile' = [sideFile EXCEPT ![i] = <<>>]
    /\ trimmed' = [trimmed EXCEPT ![i] = NoResult]
    /\ savedText' = [savedText EXCEPT ![i] = NoResult]
    /\ IF ~apiKey
       THEN /\ cause' = [cause EXCEPT ![i] = "config"]
            /\ invPc' = [invPc EXCEPT ![i] = "threw"]
            /\ thrown' = [thrown EXCEPT ![i] = ApiKeyMessage]
            /\ result' = [result EXCEPT ![i] = NoResult]
            /\ timer' = [timer EXCEPT ![i] = FALSE]
            /\ tempFileStream' = [tempFileStream EXCEPT ![i] = "null"]
            /\ IF i = Governed THEN attemptFails(ApiKeyMessage) ELSE UNCHANGED retryVars
       ELSE /\ cause' = [cause EXCEPT ![i] = "none"]
            /\ invPc' = [invPc EXCEPT ![i] = "posting"]
            /\ thrown' = [thrown EXCEPT ![i] = "none"]
            /\ result' = [result EXCEPT ![i] = NoResult]
            /\ timer' = [timer EXCEPT ![i] = TRUE]
            /\ tempFileStream' =
                   [tempFileStream EXCEPT ![i] =
                       IF ~dryRun /\ named /\ created THEN "open" ELSE "null"]
            /\ UNCHANGED retryVars
    /\ UNCHANGED <<apiKey, received>>

\* await axios.post(...) resolves with the response stream
postResolves(i) ==
    /\ invPc[i] = "posting"
    /\ invPc' = [invPc EXCEPT ![i] = "streaming"]
    /\ UNCHANGED <<savedText, apiKey, lines, received, finalOutput, timer, tempFileStream, sideFile,
                   result, thrown, cause, trimmed, retryVars>>

\* one turn of the for await loop, on the line delivered
lineArrives(i, line) ==
    /\ invPc[i] = "streaming"
    /\ received < MaxLines
    /\ received' = received + 1
    /\ lines' = [lines EXCEPT ![i] = Append(@, line)]
    /\ IF breaksLoop(line)
       THEN /\ invocationEnds(i, TRUE, finalOutput[i], "none")
            /\ UNCHANGED <<finalOutput, sideFile>>
       ELSE /\ finalOutput' = [finalOutput EXCEPT ![i] = @ \o tokenOf(line)]
            /\ sideFile' =
                   [sideFile EXCEPT ![i] =
                       IF tokenOf(line) # <<>> /\ tempFileStream[i] = "open"
                       THEN sideWrite(@, tokenOf(line), finalOutput'[i])
                       ELSE @]
            /\ UNCHANGED <<invPc, result, thrown, timer, tempFileStream, retryVars>>
    /\ UNCHANGED <<savedText, apiKey, cause, trimmed>>

\* the stream ends: the loop is left, finally runs, finalOutput is returned
streamEnds(i) ==
    /\ invPc[i] = "streaming"
    /\ invocationEnds(i, TRUE, finalOutput[i], "none")
    /\ UNCHANGED <<savedText, apiKey, lines, received, finalOutput, sideFile, cause, trimmed>>

\* the request or the stream fails with an error of kind c: "timeout" (the
\* timer fired and called controller.abort()), "abort" (an AbortError from the
\* transport), "axios" (axios.post rejected), "other" (any other error)
requestFails(i, c) ==
    /\ invPc[i] \in {"posting", "streaming"}
    /\ c = "timeout" => timer[i]
    /\ c = "axios" => invPc[i] = "posting"
    /\ cause' = [cause EXCEPT ![i] = c]
    /\ invocationEnds(i, FALSE, <<>>, ThrownMessage(c))
    /\ UNCHANGED <<savedText, apiKey, lines, received, finalOutput, sideFile, trimmed>>

\* the temporary file can no longer be written
sideFileBreaks(i) ==
    /\ tempFileStream[i] = "open"
    /\ tempFileStream' = [tempFileStream EXCEPT ![i] = "broken"]
    /\ UNCHANGED <<savedText, apiKey, invPc, lines, received, finalOutput, timer, sideFile, result,
                   thrown, cause, trimmed, retryVars>>

\* the 'error' handler of the side stream runs: tempFileStream = null
sideErrorEvent(i) ==
    /\ tempFileStream[i] = "broken"
    /\ tempFileStream' = [tempFileStream EXCEPT ![i] = "null"]
    /\ UNCHANGED <<savedText, apiKey, invPc, lines, received, finalOutput, timer, sideFile, result,
                   thrown, cause, trimmed, retryVars>>

\* createTranslationTask: const trimmed = extractTranslation(fullResponse)
callerExtracts(i) ==
    /\ invPc[i] = "returned"
    /\ ~trimmed[i].has
    /\ trimmed' = [trimmed EXCEPT ![i] = [has |-> TRUE, text |-> extractTranslation(result[i].text)]]
    /\ UNCHANGED <<savedText, apiKey, invPc, lines, received, finalOutput, timer, tempFileStream,
                   sideFile, result, thrown, cause, retryVars>>

\* createTranslationTask: await writeToFile(outputPath, trimmed), reached
\* when the extracted text is not empty
callerSaves(i) ==
    /\ trimmed[i].has
    /\ ~savedText[i].has
    /\ ~SkipsFileCreation(trimmed[i].text)
    /\ savedText' = [savedText EXCEPT ![i] = [has |-> TRUE, text |-> trimmed[i].text]]
    /\ UNCHANGED <<apiKey, invPc, lines, received, finalOutput, timer, tempFileStream,
                   sideFile, result, thrown, cause, trimmed, retryVars>>

\* translateChapter is not running
StreamIdle ==
    /\ apiKey = TRUE
    /\ invPc = [i \in Invocations |-> "idle"]
    /\ lines = [i \in Invocations |-> <<>>]
    /\ received = 0
    /\ finalOutput = [i \in Invocations |-> <<>>]
    /\ timer = [i \in Invocations |-> FALSE]
    /\ tempFileStream = [i \in Invocations |-> "null"]
    /\ sideFile = [i \in Invocations |-> <<>>]
    /\ result = [i \in Invocations |-> NoResult]
    /\ thrown = [i \in Invocations |-> "none"]
    /\ cause = [i \in Invocations |-> "none"]
    /\ trimmed = [i \in Invocations |-> NoResult]
    /\ savedText = [i \in Invocations |-> NoResult]

\* what translateChapter and its governor leave alone
nonStreamVars == <<poolVars, taskVars, drainVars, timeVars, ctorVars, rangeVars, seriesVars>>

\* ---- the pool under arbitrary callers and task timings ----

\* the fields of a pool the constructor has just returned
NewPool ==
    /\ construction = "created"
    /\ concurrencyLimit = requestedLimit
    /\ runningTasks = {}
    /\ taskQueue = <<>>
    /\ resolveDrain = NoPromise
    /\ drainPromise = NoPromise
    /\ added = 0
    /\ taskState = [t \in Tasks |-> "notStarted"]
    /\ outcome = [t \in Tasks |-> "none"]
    /\ invoked = [t \in Tasks |-> 0]
    /\ reported = [t \in Tasks |-> 0]
    /\ startOrder = <<>>
    /\ promotionOrder = <<>>
    /\ drainCalls = [c \in Callers |-> [kind |-> "none", id |-> NoPromise, addedAtCall |-> 0]]
    /\ promisesCreated = 0
    /\ settledPromises = {}
    /\ clock = 0
    /\ duration = [t \in Tasks |-> 0]
    /\ startedAt = [t \in Tasks |-> 0]
    /\ taskCompletionOrder = <<>>

\* a pool built with a positive integer limit
Init ==
    /\ requestedLimit \in {Num(n) : n \in 1..MaxLimit}
    /\ NewPool
    /\ RetryIdle
    /\ RangeIdle
    /\ SeriesIdle
    /\ StreamIdle

\* a pool built with any limit the constructor lets through
AnyLimitInit ==
    /\ requestedLimit \in PoolLimits
    /\ ~constructorThrows(requestedLimit)
    /\ NewPool
    /\ RetryIdle
    /\ RangeIdle
    /\ SeriesIdle
    /\ StreamIdle

Add == \E t \in Tasks : t <= MaxAdds /\ add(t) /\ UNCHANGED extVars

AddThrowing ==
    \E t \in Tasks, tdz \in BOOLEAN : t <= MaxAdds /\ addThrowing(t, tdz) /\ UNCHANGED extVars

TaskSucceeds ==
    \E t \in Tasks : taskSettles(t, "ok") /\ UNCHANGED <<clock, taskCompletionOrder, extVars>>

TaskFails ==
    \E t \in Tasks : taskSettles(t, "fail") /\ UNCHANGED <<clock, taskCompletionOrder, extVars>>

Continue == \E t \in Tasks : wrappedTaskExecution(t) /\ UNCHANGED extVars

Drain == \E c \in Callers : drain(c) /\ UNCHANGED extVars

Next == Add \/ AddThrowing \/ TaskSucceeds \/ TaskFails \/ Continue \/ Drain

Spec == Init /\ [][Next]_vars

\* ---- the pool under tasks that are async functions (they never throw
\* before returning their promise), as in scraper.ts and translate_ds.ts ----

AsyncNext == Add \/ TaskSucceeds \/ TaskFails \/ Continue \/ Drain

AsyncSpec == Init /\ [][AsyncNext]_vars

AnyLimitSpec == AnyLimitInit /\ [][Next]_vars

\* the body of task t ends, one way or the other
taskFinishes(t) ==
    \E o \in {"ok", "fail"} :
        taskSettles(t, o) /\ UNCHANGED <<clock, taskCompletionOrder, extVars>>

\* every started task eventually finishes, and every continuation that is ready
\* to resume is eventually run by the event loop
FairSpec ==
    /\ AsyncSpec
    /\ \A t \in Tasks : WF_vars(taskFinishes(t))
    /\ \A t \in Tasks : WF_vars(wrappedTaskExecution(t) /\ UNCHANGED extVars)

\* ---- the timed scenario: T1..T5 added together, each a timer of a fixed delay ----

\* durations of T1..T5 in the worked example
ExampleDurations == <<100, 120, 30, 40, 20>>

FinishTime(t) == startedAt[t] + duration[t]

TimedInit ==
    /\ RetryIdle
    /\ RangeIdle
    /\ SeriesIdle
    /\ StreamIdle
    /\ requestedLimit \in {Num(n) : n \in 1..MaxLimit}
    /\ construction = "created"
    /\ concurrencyLimit = requestedLimit
    /\ runningTasks = {}
    /\ taskQueue = <<>>
    /\ resolveDrain = NoPromise
    /\ drainPromise = NoPromise
    /\ added = 0
    /\ taskState = [t \in Tasks |-> "notStarted"]
    /\ outcome = [t \in Tasks |-> "none"]
    /\ invoked = [t \in Tasks |-> 0]
    /\ reported = [t \in Tasks |-> 0]
    /\ startOrder = <<>>
    /\ promotionOrder = <<>>
    /\ drainCalls = [c \in Callers |-> [kind |-> "none", id |-> NoPromise, addedAtCall |-> 0]]
    /\ promisesCreated = 0
    /\ settledPromises = {}
    /\ clock = 0
    /\ duration \in [Tasks -> Durations]
    /\ startedAt = [t \in Tasks |-> 0]
    /\ taskCompletionOrder = <<>>

\* the five add() calls run back to back, before any timer fires
TimedAdd ==
    \E t \in Tasks : clock = 0 /\ taskCompletionOrder = <<>> /\ add(t) /\ UNCHANGED extVars

\* then the test awaits pool.drain()
TimedDrain ==
    /\ added = TimedTaskCount
    /\ taskCompletionOrder = <<>>
    /\ drain(1)
    /\ UNCHANGED extVars

\* the earliest pending timer fires and the task's body ends; continuations
\* (microtasks) of earlier timers have run by then
TimerFires ==
    \E t \in Tasks :
        /\ drainCalls[1].kind # "none"
        /\ \A u \in Tasks : taskState[u] # "settled"
        /\ taskState[t] = "executing"
        /\ \A u \in Tasks : taskState[u] = "executing" => FinishTime(t) <= FinishTime(u)
        /\ taskSettles(t, "ok")
        /\ clock' = FinishTime(t)
        /\ taskCompletionOrder' = Append(taskCompletionOrder, t)
        /\ UNCHANGED extVars

TimedContinue == \E t \in Tasks : wrappedTaskExecution(t) /\ UNCHANGED extVars

TimedNext == TimedAdd \/ TimedDrain \/ TimerFires \/ TimedContinue

TimedSpec == TimedInit /\ [][TimedNext]_vars

\* ---- new PromisePool(limit) for any limit ----

CtorInit ==
    /\ RetryIdle
    /\ RangeIdle
    /\ SeriesIdle
    /\ StreamIdle
    /\ requestedLimit \in LimitInputs
    /\ construction = "pending"
    /\ concurrencyLimit = Undefined
    /\ runningTasks = {}
    /\ taskQueue = <<>>
    /\ resolveDrain = NoPromise
    /\ drainPromise = NoPromise
    /\ added = 0
    /\ taskState = [t \in Tasks |-> "notStarted"]
    /\ outcome = [t \in Tasks |-> "none"]
    /\ invoked = [t \in Tasks |-> 0]
    /\ reported = [t \in Tasks |-> 0]
    /\ startOrder = <<>>
    /\ promotionOrder = <<>>
    /\ drainCalls = [c \in Callers |-> [kind |-> "none", id |-> NoPromise, addedAtCall |-> 0]]
    /\ promisesCreated = 0
    /\ settledPromises = {}
    /\ clock = 0
    /\ duration = [t \in Tasks |-> 0]
    /\ startedAt = [t \in Tasks |-> 0]
    /\ taskCompletionOrder = <<>>

Construct == construct

CtorNext == Construct

CtorSpec == CtorInit /\ [][CtorNext]_vars

\* ---- translateChapterWithRetry called with any maxAttempts, every attempt
\* ending either way ----

RetryInit ==
    /\ requestedLimit = Num(DefaultConcurrency)
    /\ NewPool
    /\ RangeIdle
    /\ SeriesIdle
    /\ StreamIdle
    /\ maxAttempts \in 0..MaxAttempts
    /\ attempt = 0
    /\ retryPc = "start"
    /\ calls = <<>>
    /\ delays = <<>>
    /\ returned = NoValue
    /\ raised = NoError

RetryStarts == retryStarts /\ UNCHANGED nonRetryVars

AttemptSucceeds == \E v \in Translations : attemptSucceeds(v) /\ UNCHANGED nonRetryVars

AttemptFails == \E e \in Causes : attemptFails(e) /\ UNCHANGED nonRetryVars

DelayElapses == delayElapses /\ UNCHANGED nonRetryVars

RetryNext == RetryStarts \/ AttemptSucceeds \/ AttemptFails \/ DelayElapses

RetrySpec == RetryInit /\ [][RetryNext]_vars

\* ---- the range filter applied to any file name under any bounds ----

RangeInit ==
    /\ requestedLimit = Num(DefaultConcurrency)
    /\ NewPool
    /\ RetryIdle
    /\ SeriesIdle
    /\ StreamIdle
    /\ file \in FileNames
    /\ translateChapterMin \in RangeBounds
    /\ translateChapterMax \in RangeBounds
    /\ BoundsAccepted(translateChapterMin, translateChapterMax)
    /\ rangeDecision = "pending"

ApplyRangeFilter == applyRangeFilter /\ UNCHANGED nonRangeVars

RangeNext == ApplyRangeFilter

RangeSpec == RangeInit /\ [][RangeNext]_vars

\* ---- two runs of the translator over one series folder ----

SeriesInit ==
    /\ requestedLimit = Num(1)
    /\ NewPool
    /\ RetryIdle
    /\ file = <<>>
    /\ rangeDecision = "idle"
    /\ \E min \in {Undefined, Num(10)} :
          /\ translateChapterMin = min
          /\ translateChapterMax = Undefined
    /\ inputFiles = SubSeq(FolderFiles, 1, MaxUnits)
    /\ artifacts \in SUBSET {OutputName(inputFiles[u]) : u \in Units}
    /\ dryRun \in BOOLEAN
    /\ run = 1
    /\ scanIndex = 1
    /\ decision = [r \in Runs |-> [u \in Units |-> "none"]]
    /\ existedAtCheck = [r \in Runs |-> [u \in Units |-> FALSE]]
    /\ submitted = {}
    /\ requests = {}
    /\ exhausted = {}
    /\ skipTranslation \in BOOLEAN
    /\ selected = "pending"
    /\ emptyInput = {}
    /\ blankOutput = {}
    /\ unitOfTask = [t \in Tasks |-> 0]
    /\ taskPc = [t \in Tasks |-> "none"]
    /\ StreamIdle

GetSeriesToProcess == getSeriesToProcess

ScanFile == scanFile

ReadFails == \E t \in Tasks : readFails(t)

ReadDone == \E t \in Tasks, text \in InputTexts : readDone(t, text)

TranslateThrows == \E t \in Tasks : translateThrows(t)

TranslateDone == \E t \in Tasks, text \in OutputTexts : translateDone(t, text)

WriteDone == \E t \in Tasks, saved \in BOOLEAN : writeDone(t, saved)

WrapperContinues == \E t \in Tasks : wrappedTaskExecution(t) /\ UNCHANGED extVars

MainDrains == mainDrains

NextRun == nextRun

SeriesNext ==
    \/ GetSeriesToProcess
    \/ ScanFile
    \/ ReadFails
    \/ ReadDone
    \/ TranslateThrows
    \/ TranslateDone
    \/ WriteDone
    \/ WrapperContinues
    \/ MainDrains
    \/ NextRun

SeriesSpec == SeriesInit /\ [][SeriesNext]_vars

\* ---- the same runs over a folder whose file names hold ".txt" twice ----

NestedSuffixInit ==
    /\ requestedLimit \in {Num(1), Num(DefaultConcurrency)}
    /\ NewPool
    /\ RetryIdle
    /\ file = <<>>
    /\ rangeDecision = "idle"
    /\ \E min \in {Undefined, Num(10)} :
          /\ translateChapterMin = min
          /\ translateChapterMax = Undefined
    /\ inputFiles = NestedSuffixFolder
    /\ artifacts = {}
    /\ dryRun \in BOOLEAN
    /\ run = 1
    /\ scanIndex = 1
    /\ decision = [r \in Runs |-> [u \in Units |-> "none"]]
    /\ existedAtCheck = [r \in Runs |-> [u \in Units |-> FALSE]]
    /\ submitted = {}
    /\ requests = {}
    /\ exhausted = {}
    /\ skipTranslation \in BOOLEAN
    /\ selected = "pending"
    /\ emptyInput = {}
    /\ blankOutput = {}
    /\ unitOfTask = [t \in Tasks |-> 0]
    /\ taskPc = [t \in Tasks |-> "none"]
    /\ StreamIdle

NestedSuffixSpec == NestedSuffixInit /\ [][SeriesNext]_vars

\* ---- translateChapter under its governor ----

StreamInit ==
    /\ requestedLimit = Num(DefaultConcurrency)
    /\ NewPool
    /\ RangeIdle
    /\ inputFiles = <<>>
    /\ artifacts = {}
    /\ dryRun \in BOOLEAN
    /\ run = 0
    /\ scanIndex = 0
    /\ decision = [r \in Runs |-> [u \in Units |-> "none"]]
    /\ existedAtCheck = [r \in Runs |-> [u \in Units |-> FALSE]]
    /\ submitted = {}
    /\ requests = {}
    /\ exhausted = {}
    /\ skipTranslation = FALSE
    /\ selected = "pending"
    /\ emptyInput = {}
    /\ blankOutput = {}
    /\ unitOfTask = [t \in Tasks |-> 0]
    /\ taskPc = [t \in Tasks |-> "none"]
    /\ maxAttempts \in {1, 2}
    /\ attempt = 0
    /\ retryPc = "start"
    /\ calls = <<>>
    /\ delays = <<>>
    /\ returned = NoValue
    /\ raised = NoError
    /\ apiKey \in BOOLEAN
    /\ invPc = [i \in Invocations |-> "idle"]
    /\ lines = [i \in Invocations |-> <<>>]
    /\ received = 0
    /\ finalOutput = [i \in Invocations |-> <<>>]
    /\ timer = [i \in Invocations |-> FALSE]
    /\ tempFileStream = [i \in Invocations |-> "null"]
    /\ sideFile = [i \in Invocations |-> <<>>]
    /\ result = [i \in Invocations |-> NoResult]
    /\ thrown = [i \in Invocations |-> "none"]
    /\ cause = [i \in Invocations |-> "none"]
    /\ trimmed = [i \in Invocations |-> NoResult]
    /\ savedText = [i \in Invocations |-> NoResult]

GovernorStarts == retryStarts /\ UNCHANGED <<nonStreamVars, streamVars>>

GovernorDelayElapses == delayElapses /\ UNCHANGED <<nonStreamVars, streamVars>>

CallTranslateChapter ==
    \E named, created \in BOOLEAN :
        callTranslateChapter(Governed, named, created) /\ UNCHANGED nonStreamVars

PostResolves == postResolves(Governed) /\ UNCHANGED nonStreamVars

LineArrives == \E line \in StreamLines : lineArrives(Governed, line) /\ UNCHANGED nonStreamVars

StreamEnds == streamEnds(Governed) /\ UNCHANGED nonStreamVars

RequestFails ==
    \E c \in {"timeout", "abort", "axios", "other"} :
        requestFails(Governed, c) /\ UNCHANGED nonStreamVars

SideFileBreaks == sideFileBreaks(Governed) /\ UNCHANGED nonStreamVars

SideErrorEvent == sideErrorEvent(Governed) /\ UNCHANGED nonStreamVars

CallerExtracts == callerExtracts(Governed) /\ UNCHANGED nonStreamVars

CallerSaves == callerSaves(Governed) /\ UNCHANGED nonStreamVars

StreamNext ==
    \/ GovernorStarts
    \/ GovernorDelayElapses
    \/ CallTranslateChapter
    \/ PostResolves
    \/ LineArrives
    \/ StreamEnds
    \/ RequestFails
    \/ SideFileBreaks
    \/ SideErrorEvent
    \/ CallerExtracts
    \/ CallerSaves

StreamSpec == StreamInit /\ [][StreamNext]_vars

\* ---- two invocations of translateChapter in flight ----

ConcurrentInit == StreamInit

ConcurrentGovernorStarts == retryStarts /\ UNCHANGED <<nonStreamVars, streamVars>>

ConcurrentGovernorDelayElapses == delayElapses /\ UNCHANGED <<nonStreamVars, streamVars>>

ConcurrentCall ==
    \E i \in Invocations, named, created \in BOOLEAN :
        callTranslateChapter(i, named, created) /\ UNCHANGED nonStreamVars

ConcurrentPostResolves == \E i \in Invocations : postResolves(i) /\ UNCHANGED nonStreamVars

ConcurrentLineArrives ==
    \E i \in Invocations, line \in StreamLines :
        /\ received < MaxConcurrentLines
        /\ lineArrives(i, line)
        /\ UNCHANGED nonStreamVars

ConcurrentStreamEnds == \E i \in Invocations : streamEnds(i) /\ UNCHANGED nonStreamVars

ConcurrentRequestFails ==
    \E i \in Invocations, c \in {"timeout", "abort", "axios", "other"} :
        requestFails(i, c) /\ UNCHANGED nonStreamVars

ConcurrentSideFileBreaks == \E i \in Invocations : sideFileBreaks(i) /\ UNCHANGED nonStreamVars

ConcurrentSideErrorEvent == \E i \in Invocations : sideErrorEvent(i) /\ UNCHANGED nonStreamVars

ConcurrentCallerExtracts == \E i \in Invocations : callerExtracts(i) /\ UNCHANGED nonStreamVars

ConcurrentCallerSaves == \E i \in Invocations : callerSaves(i) /\ UNCHANGED nonStreamVars

ConcurrentNext ==
    \/ ConcurrentGovernorStarts
    \/ ConcurrentGovernorDelayElapses
    \/ ConcurrentCall
    \/ ConcurrentPostResolves
    \/ ConcurrentLineArrives
    \/ ConcurrentStreamEnds
    \/ ConcurrentRequestFails
    \/ ConcurrentSideFileBreaks
    \/ ConcurrentSideErrorEvent
    \/ ConcurrentCallerExtracts
    \/ ConcurrentCallerSaves

ConcurrentSpec == ConcurrentInit /\ [][ConcurrentNext]_vars

\* ---- observations ----

Executing == {t \in Tasks : taskState[t] = "executing"}
AddedTasks == 1..added
QueuedTasks == {taskQueue[i] : i \in 1..Len(taskQueue)}
DrainPending(c) == drainCalls[c].kind = "barrier" /\ drainCalls[c].id \notin settledPromises
DrainResolved(c) ==
    \/ drainCalls[c].kind = "immediate"
    \/ drainCalls[c].kind = "barrier" /\ drainCalls[c].id \in settledPromises

IsIncreasing(s) == \A i, j \in 1..Len(s) : i < j => s[i] < s[j]
PositionIn(s, x) == CHOOSE i \in 1..Len(s) : s[i] = x
InSeq(s, x) == \E i \in 1..Len(s) : s[i] = x
IsPrefix(p, s) == Len(p) <= Len(s) /\ SubSeq(s, 1, Len(p)) = p

\* the tokens of the data lines among ls that parse, in order, as one text
RECURSIVE TextOf(_)
TextOf(ls) ==
    IF ls = <<>>
    THEN <<>>
    ELSE (IF Head(ls).kind = "data" THEN Head(ls).token ELSE <<>>) \o TextOf(Tail(ls))

\* the tokens of the data lines that come before the first end marker in ls
RECURSIVE TextBeforeDone(_)
TextBeforeDone(ls) ==
    IF ls = <<>> \/ Head(ls).kind = "done"
    THEN <<>>
    ELSE (IF Head(ls).kind = "data" THEN Head(ls).token ELSE <<>>)
         \o TextBeforeDone(Tail(ls))

\* invocation i throws in this step because of a timeout or an abort
CancelledNow(i) == cause'[i] # cause[i] /\ cause'[i] \in {"timeout", "abort"}

\* this step leaves invocation j as it is
Untouched(j) ==
    /\ invPc'[j] = invPc[j]
    /\ lines'[j] = lines[j]
    /\ finalOutput'[j] = finalOutput[j]
    /\ timer'[j] = timer[j]
    /\ tempFileStream'[j] = tempFileStream[j]
    /\ sideFile'[j] = sideFile[j]
    /\ result'[j] = result[j]
    /\ thrown'[j] = thrown[j]
    /\ cause'[j] = cause[j]
    /\ trimmed'[j] = trimmed[j]
    /\ savedText'[j] = savedText[j]

\* invocation i takes a line of the given kind in this step
TakesLine(i, kind) ==
    /\ Len(lines'[i]) = Len(lines[i]) + 1
    /\ lines'[i][Len(lines'[i])].kind = kind

\* the side stream of invocation i fails, or its failure is handled, in this step
SideFailureNow(i) ==
    /\ tempFileStream'[i] # tempFileStream[i]
    /\ tempFileStream'[i] \in {"broken", "null"}
    /\ invPc[i] \in {"posting", "streaming"}

\* ---- claims ----

\* C1: the number of tasks whose body has begun executing and has not yet
\* finished never exceeds the concurrency limit.
C1_ConcurrencyCeiling == ~NumLt(concurrencyLimit, Num(Cardinality(Executing)))

\* C2: every drain() call made while the pool is non-empty eventually resolves,
\* given that every added task eventually finishes.
C2_DrainLiveness == \A c \in Callers : DrainPending(c) ~> DrainResolved(c)

\* C3: whenever a drain barrier is resolved, the running set and the queue are
\* empty and every task added so far (also those added after the drain() call)
\* has finished.
C3_DrainSafety ==
    [][settledPromises' # settledPromises =>
          /\ runningTasks' = {}
          /\ taskQueue' = <<>>
          /\ \A t \in 1..added' : taskState'[t] = "done"]_vars

C3_Witness ==
    \E c \in Callers :
        /\ drainCalls[c].kind = "barrier"
        /\ drainCalls[c].id \in settledPromises
        /\ added > drainCalls[c].addedAtCall
        /\ runningTasks = {}

\* C4: no task that is in the queue has begun executing.
C4_QueuedNotStarted == \A t \in QueuedTasks : taskState[t] = "notStarted"

\* C5: for T1..T5 with durations 100,120,30,40,20 and limit 2, the tasks
\* complete in the order 1,2,3,5,4 and drain() has resolved after the last one.
C5_ExampleSchedule ==
    (/\ concurrencyLimit = Num(2)
     /\ \A t \in Tasks : duration[t] = ExampleDurations[t]
     /\ \A t \in Tasks : taskState[t] = "done")
    => /\ taskCompletionOrder = <<1, 2, 3, 5, 4>>
       /\ DrainResolved(1)

\* C6: tasks leave the queue in the order they were added, and of two tasks
\* that were both queued the later-added one neither is promoted nor starts
\* before the earlier-added one.
C6_FifoPromotion ==
    LET everQueued == promotionOrder \o taskQueue
    IN  /\ IsIncreasing(everQueued)
        /\ \A a, b \in Tasks :
              (InSeq(everQueued, a) /\ InSeq(everQueued, b) /\ a < b /\ InSeq(startOrder, b))
              => /\ InSeq(startOrder, a)
                 /\ PositionIn(startOrder, a) < PositionIn(startOrder, b)

C6_Witness == Len(promotionOrder) >= 2

\* C7: a task that fails is removed from the running set like one that
\* succeeds, and drain() is resolved once all added tasks have finished.
C7_FailureIsolation ==
    /\ \A t \in Tasks : (taskState[t] = "done" /\ outcome[t] = "fail") => t \notin runningTasks
    /\ ((\E t \in AddedTasks : outcome[t] = "fail") /\ (\A t \in AddedTasks : taskState[t] = "done"))
       => \A c \in Callers : ~DrainPending(c)

\* C8: all drain() calls pending at the same time wait on one barrier, the one
\* that resolveDrain resolves, so one completion step resolves them all.
C8_SharedBarrier ==
    \A c \in Callers :
        DrainPending(c) => (drainCalls[c].id = drainPromise /\ resolveDrain = drainPromise)

C8_Witness == DrainPending(1) /\ DrainPending(2) /\ drainCalls[1].addedAtCall # drainCalls[2].addedAtCall

\* C9: a drain() call made when the running set and the queue are both empty
\* completes immediately and creates no barrier.
C9_DrainOnEmpty ==
    [][\A c \in Callers :
          (drainCalls[c].kind = "none" /\ drainCalls'[c].kind # "none"
             /\ runningTasks = {} /\ taskQueue = <<>>)
          => /\ drainCalls'[c].kind = "immediate"
             /\ promisesCreated' = promisesCreated
             /\ drainPromise' = drainPromise
             /\ resolveDrain' = resolveDrain]_vars

C9_Witness == \E c \in Callers : drainCalls[c].kind = "immediate" /\ drainCalls[c].addedAtCall > 0

\* C10: in every reachable state of a pool built with limit K, the running
\* set never has more than K members (size never exceeds concurrencyLimit).
C10_RunningBounded == ~NumLt(concurrencyLimit, Num(Cardinality(runningTasks)))

\* C11: construction fails whenever the limit is not a positive integer, and
\* succeeds, with size = 0 and queueSize = 0, when it is one.
C11_ConstructorValidates ==
    /\ construction = "threw" => ~IsPositiveInteger(requestedLimit)
    /\ construction = "created" =>
          /\ IsPositiveInteger(requestedLimit)
          /\ Cardinality(runningTasks) = 0
          /\ Len(taskQueue) = 0

\* C12: the pool reports exactly one error for each task that failed and none
\* for a task that succeeded: no task is ever reported twice, a report is only
\* ever made for a failed task, and once a task's wrapper has finished it has
\* one report if it failed and none if it succeeded, so that the number of
\* reports equals the number of failed tasks.
C12_OneReportPerFailure ==
    \A t \in Tasks :
        /\ reported[t] <= 1
        /\ reported[t] = 1 => outcome[t] \in {"fail", "threw"}
        /\ taskState[t] = "done" =>
              reported[t] = (IF outcome[t] \in {"fail", "threw"} THEN 1 ELSE 0)

\* a rejected task, a throwing task and a fulfilled task have all finished
C12_Witness ==
    \E t1, t2, t3 \in Tasks :
        /\ taskState[t1] = "done" /\ outcome[t1] = "fail" /\ reported[t1] = 1
        /\ taskState[t2] = "done" /\ outcome[t2] = "ok" /\ reported[t2] = 0
        /\ taskState[t3] = "done" /\ outcome[t3] = "threw" /\ reported[t3] = 1

\* C13: every task passed to add() is invoked exactly once: a task that was
\* added has been called once, whether it ran at once, waits in the queue, was
\* promoted from the queue, or drain() has resolved; no task is called twice.
C13_InvokedExactlyOnce ==
    \A t \in Tasks : invoked[t] = (IF t <= added THEN 1 ELSE 0)

\* a task was promoted from the queue and a drain() barrier has resolved
C13_Witness ==
    /\ promotionOrder # <<>>
    /\ \E c \in Callers : DrainResolved(c) /\ drainCalls[c].kind = "barrier"
    /\ \A i \in 1..Len(promotionOrder) : invoked[promotionOrder[i]] = 1

\* the calls that failed
FailedCalls == {i \in 1..Len(calls) : ~calls[i].ok}

\* C14: when translateChapterWithRetry returns, the call that succeeded is the
\* last one, every call before it failed (k of them, k < maxAttempts), the
\* value returned is the value of that call, and exactly k delays were taken,
\* the n-th being BaseDelayMs * n, each strictly greater than the one before.
C14_RetryWithBackoff ==
    retryPc = "returned" =>
        LET n == Len(calls)
            k == n - 1
        IN  /\ n >= 1 /\ k < maxAttempts
            /\ FailedCalls = 1..k
            /\ calls[n].ok /\ returned = calls[n].value
            /\ Len(delays) = k
            /\ \A i \in 1..k : delays[i] = BaseDelayMs * i
            /\ \A i \in 1..k : i > 1 => delays[i] > delays[i - 1]

\* two failures, then a success on the third attempt, after two delays
C14_Witness ==
    /\ retryPc = "returned"
    /\ Len(calls) = 3 /\ FailedCalls = {1, 2}
    /\ delays = <<BaseDelayMs, 2 * BaseDelayMs>>

\* C15: translateChapter is never called more than maxAttempts times; when
\* every attempt failed and there are maxAttempts of them, the function ends
\* by throwing the retries-exhausted error and returns no value; and it throws
\* only in that case.
C15_Exhaustion ==
    /\ Len(calls) <= maxAttempts
    /\ retryPc = "threw" =>
          /\ Len(calls) = maxAttempts
          /\ FailedCalls = 1..maxAttempts
          /\ raised = AllRetriesFailed
          /\ returned = NoValue
    /\ (retryPc = "returned" /\ Len(calls) = maxAttempts) => calls[maxAttempts].ok

\* three attempts allowed, three made, all failed, and the error was thrown
C15_Witness ==
    /\ retryPc = "threw"
    /\ maxAttempts = 3
    /\ Len(calls) = 3

\* C16: the cause of the last failed attempt can be recovered from the error
\* thrown when the attempts are exhausted.
C16_ErrorCarriesCause ==
    (retryPc = "threw" /\ calls # <<>>) => raised.cause = calls[Len(calls)].cause

\* a bound is configured
RangeConfigured == translateChapterMin # Undefined \/ translateChapterMax # Undefined

\* the ordinal of the file at hand lies within the configured bounds, a missing
\* bound being unbounded
OrdinalWithinBounds ==
    LET n == parseInt(Captured(file))
    IN  /\ translateChapterMin # Undefined => NumLe(translateChapterMin, n)
        /\ translateChapterMax # Undefined => NumLe(n, translateChapterMax)

\* C20: when a bound is configured, a file passes the range filter exactly when
\* its ordinal parses from its name and min <= ordinal <= max, both bounds
\* inclusive and a missing bound unbounded; a file whose ordinal cannot be
\* parsed is excluded. With min = 10 and max = 50 the file of ordinal 5 is
\* excluded, those of ordinals 10 and 50 pass, that of ordinal 51 is excluded.
C20_RangeFiltering ==
    rangeDecision \notin {"idle", "pending"} =>
        /\ RangeConfigured =>
              /\ rangeDecision = "pass" <=> (RegexMatches(file) /\ OrdinalWithinBounds)
              /\ ~RegexMatches(file) => rangeDecision = "cannotParse"
        /\ (translateChapterMin = Num(10) /\ translateChapterMax = Num(50)) =>
              /\ file = File0005 => rangeDecision = "outOfRange"
              /\ file \in {File0010, File0030, File0050} => rangeDecision = "pass"
              /\ file = File0051 => rangeDecision = "outOfRange"
              /\ file \in {FileFiveDigits, FileOneDigit, FileNoHyphen, FileNoNumber} =>
                    rangeDecision = "cannotParse"
        /\ ~RangeConfigured => rangeDecision = "pass"

\* under min = 10, max = 50 the file of ordinal 10 has passed the filter
C20_Witness ==
    /\ translateChapterMin = Num(10)
    /\ translateChapterMax = Num(50)
    /\ file = File0010
    /\ rangeDecision = "pass"

\* the output file of unit u is among the artifacts
HasArtifact(u) == OutputName(inputFiles[u]) \in artifacts

\* the pool tasks of the run in progress that work on unit u
TasksOf(u) == {t \in Tasks : unitOfTask[t] = u}

\* C17: a unit whose artifact exists when it is scanned is not handed to the
\* pool and no translation is requested for it in that run; every unit handed
\* to the pool had no artifact when it was checked; and translation is requested
\* only for a unit that was checked and handed to the pool before.
C17_SkipIfExists ==
    /\ \A r \in Runs, u \in Units :
          /\ (decision[r][u] # "none" /\ existedAtCheck[r][u]) =>
                /\ decision[r][u] # "include"
                /\ <<r, u>> \notin submitted
                /\ <<r, u>> \notin requests
          /\ <<r, u>> \in submitted =>
                /\ decision[r][u] = "include"
                /\ ~existedAtCheck[r][u]
          /\ <<r, u>> \in requests => <<r, u>> \in submitted
    /\ \A t \in Tasks : unitOfTask[t] # 0 => <<run, unitOfTask[t]>> \in submitted

\* in one run a unit was skipped because its artifact was there, while
\* translation was requested for another
C17_Witness ==
    \E u1, u2 \in Units :
        /\ decision[1][u1] = "exists" /\ existedAtCheck[1][u1]
        /\ <<1, u2>> \in requests

\* C18: when the retries for a unit are exhausted, no artifact is written for
\* it in that run, its task's promise is fulfilled and the pool reports no
\* failure for it, and the next run, finding the artifact still absent, hands
\* the unit to the pool again.
C18_ExhaustionIsTerminalForUnit ==
    \A r \in Runs, u \in Units :
        <<r, u>> \in exhausted =>
            /\ r = run => ~HasArtifact(u)
            /\ (r < run /\ decision[run][u] = "none") => ~HasArtifact(u)
            /\ r = run =>
                  /\ TasksOf(u) # {}
                  /\ \A t \in TasksOf(u) :
                        /\ taskState[t] \in {"settled", "done"}
                        /\ outcome[t] = "ok"
                        /\ reported[t] = 0
            /\ (r = 1 /\ decision[2][u] # "none" /\ ~existedAtCheck[2][u]) =>
                  /\ decision[2][u] = "include"
                  /\ <<2, u>> \in submitted

\* a unit whose retries were exhausted in the first run is handed to the pool
\* in the second, and a sibling was translated in the first run
C18_Witness ==
    \E u, v \in Units :
        /\ <<1, u>> \in exhausted
        /\ <<2, u>> \in submitted
        /\ u # v /\ HasArtifact(v) /\ ~existedAtCheck[1][v]

\* the units whose artifact was found by the second run and not by the first,
\* and those found by the first and not by the second
NewlyThere == {u \in Units : existedAtCheck[2][u] /\ ~existedAtCheck[1][u]}
NoLongerThere == {u \in Units : existedAtCheck[1][u] /\ ~existedAtCheck[2][u]}

\* C19: once the second run has scanned the listing: if it found the same
\* artifacts as the first run did, it decided for every unit what the first
\* run decided; and if it found exactly one artifact more, that of unit X, it
\* excludes X and decides for every other unit what the first run decided.
C19_ResumabilityIdempotence ==
    (run = 2 /\ scanIndex > Len(inputFiles)) =>
        /\ (NewlyThere = {} /\ NoLongerThere = {}) =>
              \A u \in Units : decision[2][u] = decision[1][u]
        /\ \A X \in Units :
              (NewlyThere = {X} /\ NoLongerThere = {}) =>
                  /\ decision[2][X] # "include"
                  /\ \A u \in Units \ {X} : decision[2][u] = decision[1][u]

\* the first run saved the artifact of exactly one unit; the second run skips
\* it and includes another unit, as the first run did
C19_Witness ==
    /\ run = 2
    /\ scanIndex > Len(inputFiles)
    /\ \E X, u \in Units :
          /\ NewlyThere = {X}
          /\ decision[1][X] = "include" /\ decision[2][X] = "exists"
          /\ u # X /\ decision[1][u] = "include" /\ decision[2][u] = "include"

\* the tasks of unit u in the run in progress have ended with a fulfilled
\* promise, and the pool has reported none of them
EndedQuietly(u) ==
    /\ TasksOf(u) # {}
    /\ \A t \in TasksOf(u) :
          /\ taskState[t] \in {"settled", "done"}
          /\ outcome[t] = "ok"
          /\ reported[t] = 0

\* unit u, left without artifact by run r, has none until a later run scans
\* it, and the next run hands it to the pool again
LeftForLaterRun(r, u) ==
    /\ r = run => ~HasArtifact(u)
    /\ (r < run /\ decision[run][u] = "none") => ~HasArtifact(u)
    /\ (r = 1 /\ decision[2][u] # "none") =>
          /\ decision[2][u] = "include"
          /\ <<2, u>> \in submitted

\* C21: for a unit whose input is empty or whitespace-only no translation is
\* requested; for such a unit, and for a unit whose translation is empty after
\* trimming, no artifact is written, the task ends without throwing, and the
\* next run picks the unit up again.
C21_BlankIsNotAnError ==
    \A r \in Runs, u \in Units :
        /\ <<r, u>> \in emptyInput => <<r, u>> \notin requests
        /\ <<r, u>> \in (emptyInput \cup blankOutput) =>
              /\ r = run => EndedQuietly(u)
              /\ LeftForLaterRun(r, u)

\* the first run met a blank input for one unit and a blank translation for
\* another, and the second run has handed both to the pool again
C21_Witness ==
    \E u, v \in Units :
        /\ <<1, u>> \in emptyInput /\ <<2, u>> \in submitted
        /\ <<1, v>> \in blankOutput /\ <<2, v>> \in submitted

\* what a run decides for file f whose artifact is there (or not) when scanned
ResolverDecision(f, artifactThere) ==
    IF rangeFilter(f, translateChapterMin, translateChapterMax) # "pass"
    THEN rangeFilter(f, translateChapterMin, translateChapterMax)
    ELSE IF artifactThere THEN "exists" ELSE "include"

\* C22: in a dry run no translation is requested for any unit and no artifact
\* is written, while every decision of the scan is the one a normal run takes
\* for the same file, bounds and artifacts.
C22_DryRun ==
    /\ [](dryRun =>
            /\ requests = {}
            /\ exhausted = {}
            /\ \A t \in Tasks : taskPc[t] \notin {"translating", "writing"})
    /\ [][dryRun => artifacts' = artifacts]_vars
    /\ [](\A r \in Runs, u \in Units :
            decision[r][u] # "none" =>
                decision[r][u] = ResolverDecision(inputFiles[u], existedAtCheck[r][u]))

\* a dry run has handed a unit with content to the pool, its task has
\* finished, and the second dry run has handed it to the pool again
C22_Witness ==
    /\ dryRun
    /\ run = 2
    /\ \E u \in Units :
          /\ <<1, u>> \in submitted /\ <<1, u>> \notin emptyInput
          /\ <<2, u>> \in submitted

\* C23: a series marked skipTranslation contributes no units: its files are
\* never scanned, checked for an artifact or handed to the pool, whatever its
\* files and artifacts are.
C23_SkippedSeries ==
    skipTranslation =>
        /\ selected # "yes"
        /\ scanIndex = 1
        /\ added = 0
        /\ submitted = {}
        /\ requests = {}
        /\ \A r \in Runs, u \in Units : decision[r][u] = "none" /\ ~existedAtCheck[r][u]

\* a skipped series that has files, some with and some without artifact, was
\* passed over by both runs
C23_Witness ==
    /\ skipTranslation
    /\ run = 2
    /\ selected = "no"
    /\ \E u, v \in Units : HasArtifact(u) /\ ~HasArtifact(v)

\* where an added task is: how many of "in the running set", "in the queue",
\* "finished and in neither" hold of it
PlacesOf(t) ==
    (IF t \in runningTasks THEN 1 ELSE 0)
    + (IF InSeq(taskQueue, t) THEN 1 ELSE 0)
    + (IF taskState[t] = "done" /\ t \notin runningTasks /\ ~InSeq(taskQueue, t)
       THEN 1 ELSE 0)

\* C24: an invocation ended by its timeout or by an abort of the transport
\* has thrown the timeout error and returned nothing, whatever text it had
\* accumulated; the governor records that as one failed attempt and goes on to
\* its delay; the step leaves every other invocation as it was.
C24_Timeout ==
    /\ [](\A i \in Invocations :
            cause[i] \in {"timeout", "abort"}
            => invPc[i] = "threw" /\ thrown[i] = TimedOutMessage /\ ~result[i].has)
    /\ [][CancelledNow(Governed)
           => /\ calls' = Append(calls, [ok |-> FALSE, value |-> NoValue,
                                          cause |-> TimedOutMessage])
              /\ Len(delays') = Len(delays) + 1
              /\ attempt' = attempt
              /\ retryPc' = "delay"]_vars
    /\ [][\A i \in Invocations :
             CancelledNow(i) => \A j \in Invocations \ {i} : Untouched(j)]_vars

C24_Witness ==
    /\ cause[Governed] = "timeout"
    /\ finalOutput[Governed] = <<"a">>
    /\ ~result[Governed].has
    /\ retryPc = "delay"
    /\ invPc[2] = "streaming"

\* C25: the accumulator is always the tokens of the well-formed data lines
\* taken so far, in order, whatever other lines came between them; a line that
\* does not parse leaves the invocation consuming its stream, with the
\* accumulator as it was; what a returned invocation returns is that text.
C25_MalformedSkipped ==
    /\ [](\A i \in Invocations : finalOutput[i] = TextOf(lines[i]))
    /\ [][\A i \in Invocations :
             TakesLine(i, "malformed")
             => /\ invPc'[i] = "streaming"
                /\ finalOutput'[i] = finalOutput[i]
                /\ thrown'[i] = thrown[i]]_vars
    /\ [](\A i \in Invocations :
            invPc[i] = "returned" /\ (\E k \in 1..Len(lines[i]) : lines[i][k].kind = "malformed")
            => result[i].has /\ result[i].text = TextOf(lines[i]))

C25_Witness ==
    /\ invPc[Governed] = "returned"
    /\ Len(lines[Governed]) = 3
    /\ lines[Governed][1] = [kind |-> "data", token |-> <<"a">>]
    /\ lines[Governed][2].kind = "malformed"
    /\ lines[Governed][3] = [kind |-> "data", token |-> <<"a">>]
    /\ result[Governed].text = <<"a", "a">>

\* C26: the side file always holds a prefix of the accumulated text, and the
\* whole of it as long as its stream is open, so also when the invocation
\* returns with the stream open; a failure of the side stream leaves the
\* invocation running with its accumulator as it was, and the text returned is
\* that of the lines received whether or not a side file was written.
C26_SideFile ==
    /\ [](\A i \in Invocations :
            /\ IsPrefix(sideFile[i], finalOutput[i])
            /\ tempFileStream[i] = "open" => sideFile[i] = finalOutput[i])
    /\ [][\A i \in Invocations :
             /\ tempFileStream[i] = "open" /\ invPc[i] # "returned" /\ invPc'[i] = "returned"
                => sideFile'[i] = result'[i].text
             /\ SideFailureNow(i)
                => invPc'[i] = invPc[i] /\ finalOutput'[i] = finalOutput[i]]_vars
    /\ [](\A i \in Invocations :
            invPc[i] = "returned" /\ tempFileStream[i] \in {"null", "ended"}
            => result[i].text = TextOf(lines[i]))

C26_Witness ==
    /\ invPc[Governed] = "returned"
    /\ tempFileStream[Governed] = "null"
    /\ sideFile[Governed] = <<"a">>
    /\ result[Governed].text = <<"a", "a">>

\* C27 as stated: what translateChapter returns is the accumulated text with
\* its leading and trailing whitespace removed.
C27_ReturnsTrimmed ==
    \A i \in Invocations : result[i].has => result[i].text = trim(TextOf(lines[i]))

\* C27: translateChapter returns the accumulated text as it was received, and
\* the text its caller extracts from that is the accumulated text with its
\* leading and trailing whitespace removed.
C27_CallerTrims ==
    \A i \in Invocations :
        /\ result[i].has => result[i].text = TextOf(lines[i])
        /\ trimmed[i].has => trimmed[i].text = trim(TextOf(lines[i]))

C27_Witness ==
    /\ trimmed[Governed].has
    /\ result[Governed].text = <<" ", "a">>
    /\ trimmed[Governed].text = <<"a">>

\* C28: every added task is in exactly one of: the running set, the queue,
\* finished and removed; a finished task is in neither the running set nor
\* the queue.
C28_TaskPartition ==
    \A t \in AddedTasks :
        /\ PlacesOf(t) = 1
        /\ taskState[t] = "done" => (t \notin runningTasks /\ ~InSeq(taskQueue, t))

\* C29: a task is queued only while the pool is saturated: whenever the queue
\* is not empty the running set has exactly concurrencyLimit members.
C29_QueuedOnlyWhenSaturated ==
    Len(taskQueue) > 0 => Num(Cardinality(runningTasks)) = concurrencyLimit

\* C30: a barrier is created only by a drain() call made while work is pending
\* and no barrier exists; the step that resolves it leaves the running set and
\* the queue empty and the pool without barrier; no barrier is resolved twice;
\* a completion that empties the pool resolves the barrier there is; and the
\* barrier a drain() call gets is never one that was resolved before.
C30_BarrierLifecycle ==
    [][/\ promisesCreated' # promisesCreated =>
             /\ ~PoolEmpty(runningTasks, taskQueue)
             /\ drainPromise = NoPromise
             /\ drainPromise' = promisesCreated'
             /\ \E c \in Callers : drainCalls[c].kind = "none" /\ drainCalls'[c].kind = "barrier"
       /\ settledPromises' # settledPromises =>
             /\ settledPromises' = settledPromises \cup {resolveDrain}
             /\ resolveDrain # NoPromise
             /\ resolveDrain \notin settledPromises
             /\ PoolEmpty(runningTasks', taskQueue')
             /\ drainPromise' = NoPromise
             /\ resolveDrain' = NoPromise
       /\ (resolveDrain # NoPromise /\ ~PoolEmpty(runningTasks, taskQueue)
             /\ PoolEmpty(runningTasks', taskQueue')) =>
             resolveDrain \in settledPromises'
       /\ \A c \in Callers :
             (drainCalls[c].kind = "none" /\ drainCalls'[c].kind = "barrier") =>
                 drainCalls'[c].id \notin settledPromises]_vars

\* two barriers were created one after the other and both were resolved, the
\* second for a drain() call made after more work had been added
C30_Witness ==
    /\ promisesCreated = 2
    /\ settledPromises = {1, 2}
    /\ \E c, d \in Callers :
          /\ drainCalls[c].id = 1 /\ drainCalls[d].id = 2
          /\ drainCalls[d].addedAtCall > drainCalls[c].addedAtCall

\* C31: an add() call leaves size one larger and queueSize as it was when
\* size < concurrencyLimit held before the call, and queueSize one larger and
\* size as it was otherwise; it promotes no queued task and leaves the drain
\* barrier, pending or not, as it was.
C31_AddEffect ==
    [][added' = added + 1
       => /\ IF NumLt(Num(Cardinality(runningTasks)), concurrencyLimit)
             THEN /\ Cardinality(runningTasks') = Cardinality(runningTasks) + 1
                  /\ taskQueue' = taskQueue
             ELSE /\ Len(taskQueue') = Len(taskQueue) + 1
                  /\ runningTasks' = runningTasks
          /\ promotionOrder' = promotionOrder
          /\ resolveDrain' = resolveDrain
          /\ drainPromise' = drainPromise
          /\ settledPromises' = settledPromises]_vars

C31_Witness ==
    /\ Len(taskQueue) > 0
    /\ resolveDrain # NoPromise
    /\ \E t \in Tasks : outcome[t] = "threw" /\ InSeq(taskQueue, t)
    /\ \E t \in Tasks : outcome[t] = "none" /\ t \in runningTasks

\* C32: a task whose task() threw while add() was executing has been reported
\* once and is not in the running set.
C32_SyncFailureIsolated ==
    \A t \in Tasks : outcome[t] = "threw" => reported[t] = 1 /\ t \notin runningTasks

\* C33: drainPromise and resolveDrain are both set or both null, and while they
\* are set the running set or the queue is not empty.
C33_BarrierOnlyOverWork ==
    /\ (drainPromise = NoPromise) <=> (resolveDrain = NoPromise)
    /\ resolveDrain # NoPromise => runningTasks # {} \/ Len(taskQueue) > 0

C33_Witness ==
    /\ settledPromises # {}
    /\ resolveDrain # NoPromise
    /\ drainPromise = resolveDrain
    /\ runningTasks # {}

\* C34: when translateChapterWithRetry has ended after at least one attempt,
\* the delays it waited through number one less than its attempts.
C34_DelaysOnlyBetweenAttempts ==
    retryPc \in {"returned", "threw"} /\ Len(calls) > 0 => Len(delays) = Len(calls) - 1

\* C35: when the attempt in progress returns a value, blank or not, the
\* governor returns that value in the same step, with no delay requested; once
\* it has returned it makes no further attempt.
C35_RetryOnlyOnThrow ==
    /\ [](invPc[Governed] = "returned"
          => /\ retryPc = "returned"
             /\ returned = result[Governed].text
             /\ calls[Len(calls)].ok)
    /\ [][invPc[Governed] # "returned" /\ invPc'[Governed] = "returned"
           => /\ Len(calls') = Len(calls) + 1
              /\ delays' = delays
              /\ attempt' = attempt]_vars
    /\ [][retryPc = "returned"
           => /\ UNCHANGED <<calls, delays, attempt, retryPc>>
              /\ invPc'[Governed] = "returned"]_vars

C35_Witness ==
    /\ retryPc = "returned"
    /\ returned = <<" ">>
    /\ Len(calls) = 2
    /\ ~calls[1].ok
    /\ Len(delays) = 1

\* the artifact path task t writes to
TargetOf(t) == OutputName(inputFiles[unitOfTask[t]])

\* C36: the tasks handed to the pool in one run have pairwise different
\* artifact paths, and each was handed over after the existence check of its
\* unit found no artifact.
C36_OneTaskPerArtifact ==
    /\ \A t1, t2 \in Tasks :
          t1 # t2 /\ unitOfTask[t1] # 0 /\ unitOfTask[t2] # 0 => TargetOf(t1) # TargetOf(t2)
    /\ \A t \in Tasks :
          unitOfTask[t] # 0
          => decision[run][unitOfTask[t]] = "include" /\ ~existedAtCheck[run][unitOfTask[t]]

\* C37: the text saved for a unit is not empty, the invocation it came from
\* has returned, and it is the trimmed text of the lines that invocation alone
\* received; nothing is saved while every attempt so far has thrown.
C37_ArtifactFromOneSuccess ==
    \A i \in Invocations :
        savedText[i].has
        => /\ savedText[i].text # <<>>
           /\ invPc[i] = "returned"
           /\ thrown[i] = "none"
           /\ savedText[i].text = trim(TextOf(lines[i]))

C37_Witness ==
    /\ savedText[Governed].has
    /\ savedText[Governed].text = <<"a">>
    /\ result[Governed].text = <<" ", "a">>
    /\ Len(calls) = 2
    /\ ~calls[1].ok

\* C38: a task whose translation is in progress, between its first attempt and
\* its success or exhaustion, holds a slot of the pool: it is in the running set
\* and not in the queue, and the running set is within the limit.
C38_OneSlotWhileTranslating ==
    \A t \in Tasks :
        taskPc[t] = "translating"
        => /\ t \in runningTasks
           /\ ~InSeq(taskQueue, t)
           /\ ~NumLt(concurrencyLimit, Num(Cardinality(runningTasks)))

\* C39: the accumulator is the tokens of the data lines taken before the end
\* marker, in the order they came; the line that carries the marker is the
\* last one the invocation takes, and the step that takes it returns the
\* accumulator as it stood.
C39_AccumulatesUntilDone ==
    /\ [](\A i \in Invocations :
            /\ finalOutput[i] = TextBeforeDone(lines[i])
            /\ \A k \in 1..Len(lines[i]) : lines[i][k].kind = "done" => k = Len(lines[i]))
    /\ [][\A i \in Invocations :
             TakesLine(i, "done")
             => /\ invPc'[i] = "returned"
                /\ finalOutput'[i] = finalOutput[i]
                /\ result'[i] = [has |-> TRUE, text |-> finalOutput[i]]]_vars

C39_Witness ==
    /\ invPc[Governed] = "returned"
    /\ Len(lines[Governed]) = 3
    /\ lines[Governed][1] = [kind |-> "data", token |-> <<" ">>]
    /\ lines[Governed][2] = [kind |-> "data", token |-> <<"a">>]
    /\ lines[Governed][3].kind = "done"
    /\ result[Governed].text = <<" ", "a">>

TypeOK ==
    /\ concurrencyLimit \in PoolLimits
    /\ runningTasks \subseteq Tasks
    /\ added \in 0..TimedTaskCount
    /\ resolveDrain \in 0..MaxCallers
    /\ drainPromise \in 0..MaxCallers
====
